---- MODULE Spec2Model ----
(***************************************************************************)
(* Model of crates/trie/prefetch/src/prefetch.rs: the TriePrefetch         *)
(* coordinator (run), its dedup filter (deduplicate_and_update_cached) and *)
(* the background worker (prefetch_once), on a multi-threaded runtime.     *)
(***************************************************************************)
EXTENDS Integers, Sequences, FiniteSets, TLC

\* ------------------------------------------------------------- bounds
NumAccounts == 2
NumSlots == 1
NumValues == 2
MaxBatches == 2
MaxBranches == 1

Addresses == 1..NumAccounts
SlotKeys == 1..NumSlots
Values == 1..NumValues
Workers == 1..MaxBatches
\* The mutex holder that stands for run itself.
CoordId == MaxBatches + 1

\* ------------------------------------------------------------- data
\* Option<T>: None is the empty sequence, Some(x) the one-element sequence.
None == <<>>
Some(x) == <<x>>

EmptyMap == [k \in {} |-> 0]
ContainsKey(m, k) == k \in DOMAIN m
Insert(m, k, v) == [x \in DOMAIN m \cup {k} |-> IF x = k THEN v ELSE m[x]]
Restrict(m, S) == [x \in S |-> m[x]]

\* keccak256 on addresses and on slot keys: injective, not order preserving.
HashedAddress(a) == NumAccounts + 1 - a
HashedSlot(s) == NumSlots + 1 - s
HashedIds == {HashedAddress(a) : a \in Addresses}
HashedSlots == {HashedSlot(s) : s \in SlotKeys}

\* EvmState: address -> account (its info and the storage slots it touched).
StorageMaps == UNION {[S -> Values] : S \in SUBSET SlotKeys}
AccountRecs == [info : Values, storage : StorageMaps]
EvmStates == UNION {[D -> AccountRecs] : D \in SUBSET Addresses}
\* Batches that differ only in what the worker's control flow can depend on
\* (the set of accounts).
PlainStates == {b \in EvmStates :
                  \A a \in DOMAIN b : b[a].info = 1 /\ DOMAIN b[a].storage = {}}

\* HashedPostState::from_state
from_state(state) ==
  LET addr(h) == CHOOSE a \in DOMAIN state : HashedAddress(a) = h
      slot(h, k) == CHOOSE s \in DOMAIN state[addr(h)].storage : HashedSlot(s) = k
      hs == {HashedAddress(a) : a \in DOMAIN state}
  IN [accounts |-> [h \in hs |-> state[addr(h)].info],
      storages |-> [h \in hs |->
                      [k \in {HashedSlot(s) : s \in DOMAIN state[addr(h)].storage}
                         |-> state[addr(h)].storage[slot(h, k)]]]]

\* HashedPostState::default()
DefaultHashedPostState == [accounts |-> EmptyMap, storages |-> EmptyMap]

\* The (account, slot) pairs a hashed state carries.
StoragePairs(hp) ==
  {p \in HashedIds \X HashedSlots :
     ContainsKey(hp.storages, p[1]) /\ ContainsKey(hp.storages[p[1]], p[2])}

\* Nibbles::unpack: a key as its path of nibbles.
Nibbles(h) == <<h \div 16, h % 16>>

\* HashedPostState::construct_prefix_sets(..).freeze()
construct_prefix_sets(hp) ==
  [account_prefix_set |->
     {Nibbles(h) : h \in DOMAIN hp.accounts \cup DOMAIN hp.storages},
   storage_prefix_sets |->
     [h \in DOMAIN hp.storages |-> {Nibbles(k) : k \in DOMAIN hp.storages[h]}]]

\* StorageRootTargets::new: the accounts with a non-empty storage prefix set,
\* each with its prefix set.
StorageRootTargetsNew(changed_accounts, storage_prefix_sets) ==
  Restrict(storage_prefix_sets,
           {h \in DOMAIN storage_prefix_sets : storage_prefix_sets[h] # {}})

\* u64 subtraction; -1 stands for the overflowed difference.
USub(a, b) == IF a >= b THEN a - b ELSE -1

\* ------------------------------------------------------------- dedup
\* The loop over hashed_state.accounts, one key at a time.
RECURSIVE DedupAccounts(_, _, _, _)
DedupAccounts(todo, accounts, cached, out) ==
  IF todo = {} THEN [cached |-> cached, out |-> out]
  ELSE LET address == CHOOSE h \in todo : TRUE
       IN IF ~ContainsKey(cached, address)
          THEN DedupAccounts(todo \ {address}, accounts,
                             Insert(cached, address, TRUE),
                             Insert(out, address, accounts[address]))
          ELSE DedupAccounts(todo \ {address}, accounts, cached, out)

\* A filter that forgets to record what it hands out, for comparison.
DedupNotRemembering(c_accounts, c_storages, state) ==
  LET hashed_state == from_state(state)
      r == DedupAccounts(DOMAIN hashed_state.accounts, hashed_state.accounts,
                         c_accounts, EmptyMap)
  IN [cached_accounts |-> c_accounts,
      cached_storages |-> c_storages,
      new_hashed_state |-> [accounts |-> r.out, storages |-> EmptyMap]]

\* A filter that hands every storage entry through unfiltered, for comparison.
DedupPassingStorages(c_accounts, c_storages, state) ==
  LET hashed_state == from_state(state)
      r == DedupAccounts(DOMAIN hashed_state.accounts, hashed_state.accounts,
                         c_accounts, EmptyMap)
  IN [cached_accounts |-> r.cached,
      cached_storages |-> c_storages,
      new_hashed_state |-> [accounts |-> r.out,
                            storages |-> hashed_state.storages]]

\* TriePrefetch::deduplicate_and_update_cached
deduplicate_and_update_cached(c_accounts, c_storages, state) ==
  LET hashed_state == from_state(state)
      r == DedupAccounts(DOMAIN hashed_state.accounts, hashed_state.accounts,
                         c_accounts, EmptyMap)
  IN [cached_accounts |-> r.cached,
      cached_storages |-> c_storages,
      new_hashed_state |-> [accounts |-> r.out, storages |-> EmptyMap]]

\* ------------------------------------------------------------- state
VARIABLES
  prefetch_rx,      \* the inbound channel: the batches queued
  tx_open,          \* whether a sender of the inbound channel is alive
  sent,             \* batches sent so far
  interrupt_rx,     \* the one-shot: "pending", "fired" or "dropped"
  pc,               \* the coordinator's position in run
  state,            \* run's local `state`: what recv() returned
  hashed_state,     \* run's local `hashed_state`: the filter's output
  cached_accounts,  \* TriePrefetch.cached_accounts
  cached_storages,  \* TriePrefetch.cached_storages
  join_set,         \* the tasks spawned into the JoinSet
  tasks,            \* each worker's local state in prefetch_once
  global_stats,     \* GlobalStats behind the mutex
  lock,             \* the mutex's holder: 0 (free), a worker, or "run"
  received,         \* history: batches taken from the channel
  acct_hist,        \* history, per hashed account
  slot_hist,        \* history, per (hashed account, hashed slot)
  obs               \* history, per worker

vars == <<prefetch_rx, tx_open, sent, interrupt_rx, pc, state, hashed_state,
          cached_accounts, cached_storages, join_set, tasks, global_stats,
          lock, received, acct_hist, slot_hist, obs>>

env_vars == <<prefetch_rx, tx_open, sent, interrupt_rx>>
cache_vars == <<cached_accounts, cached_storages>>
hist_vars == <<received, acct_hist, slot_hist>>
worker_vars == <<tasks, global_stats, lock, obs>>

\* ------------------------------------------------------------- history
\* Per key: whether a filtered batch has carried it, with which value the
\* first time, and in how many filter outputs it has been.
NoHist == [offered |-> FALSE, scheduled |-> 0, first |-> 0]

\* One filter call seen from outside: the key was in the batch with value v
\* (inBatch), and was or was not in the filter's output (inOut).
Observe(h, inBatch, v, inOut) ==
  IF ~inBatch THEN h
  ELSE [offered |-> TRUE,
        scheduled |-> h.scheduled + (IF inOut THEN 1 ELSE 0),
        first |-> IF h.offered THEN h.first ELSE v]

ObserveAccounts(hist, in, out) ==
  [h \in HashedIds |->
     Observe(hist[h], ContainsKey(in.accounts, h),
             IF ContainsKey(in.accounts, h) THEN in.accounts[h] ELSE 0,
             ContainsKey(out.accounts, h))]

ObserveSlots(hist, in, out) ==
  [p \in HashedIds \X HashedSlots |->
     Observe(hist[p], p \in StoragePairs(in),
             IF p \in StoragePairs(in) THEN in.storages[p[1]][p[2]] ELSE 0,
             p \in StoragePairs(out))]

\* ------------------------------------------------------------- tasks
NoTask == [pc |-> "none", aborted |-> FALSE,
           hashed_state |-> DefaultHashedPostState,
           self_clone |-> [cached_accounts |-> EmptyMap,
                           cached_storages |-> EmptyMap],
           prefix_sets |-> [account_prefix_set |-> {},
                            storage_prefix_sets |-> EmptyMap],
           storage_root_targets |-> EmptyMap,
           storage_roots |-> EmptyMap,
           tracker |-> [branches |-> 0, leaves |-> 0],
           leaves_missed |-> 0, last_leaf |-> 0, fallback_err |-> FALSE,
           result |-> "pending"]

\* A task that has ended: its future, and every local in it, is dropped.
Ended(how, result) == [NoTask EXCEPT !.pc = how, !.result = result]

\* What is observed of a worker: whether it called provider_ro, whether its
\* tracker had counted anything when it failed and, while it is live, where
\* abort_all found it and the walk steps it took after an abort_all that found
\* it walking (counted up to LateCap).
NoObs == [snapshot |-> FALSE, abort_at |-> "none", late_steps |-> 0,
          lost |-> FALSE]

\* What stays observed of a worker that has ended.
Closed(o) == [NoObs EXCEPT !.snapshot = o.snapshot, !.lost = o.lost]

Init ==
  /\ prefetch_rx = <<>>
  /\ tx_open = TRUE
  /\ sent = 0
  /\ interrupt_rx = "pending"
  /\ pc = "select"
  /\ state = None
  /\ hashed_state = DefaultHashedPostState
  /\ cached_accounts = EmptyMap
  /\ cached_storages = EmptyMap
  /\ join_set = {}
  /\ tasks = [w \in Workers |-> NoTask]
  /\ global_stats = [branch_prefetched |-> 0, leaves_prefetched |-> 0,
                     missed_leaves_prefetched |-> 0]
  /\ lock = 0
  /\ received = 0
  /\ acct_hist = [h \in HashedIds |-> NoHist]
  /\ slot_hist = [p \in HashedIds \X HashedSlots |-> NoHist]
  /\ obs = [w \in Workers |-> NoObs]

\* ------------------------------------------------------------- environment
\* A producer sends a batch; sending fails once run has returned and dropped
\* the receiver.
Send(b) ==
  /\ tx_open /\ pc # "returned" /\ sent < MaxBatches
  /\ prefetch_rx' = Append(prefetch_rx, b)
  /\ sent' = sent + 1
  /\ UNCHANGED <<tx_open, interrupt_rx, pc, state, hashed_state, cache_vars,
                 join_set, worker_vars, hist_vars>>

\* The last sender of the inbound channel is dropped.
CloseChannel ==
  /\ tx_open /\ pc # "returned"
  /\ tx_open' = FALSE
  /\ UNCHANGED <<prefetch_rx, sent, interrupt_rx, pc, state, hashed_state,
                 cache_vars, join_set, worker_vars, hist_vars>>

FireInterrupt ==
  /\ interrupt_rx = "pending" /\ pc # "returned"
  /\ interrupt_rx' = "fired"
  /\ UNCHANGED <<prefetch_rx, tx_open, sent, pc, state, hashed_state,
                 cache_vars, join_set, worker_vars, hist_vars>>

DropInterrupt ==
  /\ interrupt_rx = "pending" /\ pc # "returned"
  /\ interrupt_rx' = "dropped"
  /\ UNCHANGED <<prefetch_rx, tx_open, sent, pc, state, hashed_state,
                 cache_vars, join_set, worker_vars, hist_vars>>

\* ------------------------------------------------------------- run
\* select!: the recv branch completes, with Some(batch) or, when the channel is
\* closed and drained, with None.
SelectRecv ==
  /\ pc = "select"
  /\ \/ /\ prefetch_rx # <<>>
        /\ state' = Some(Head(prefetch_rx))
        /\ prefetch_rx' = Tail(prefetch_rx)
        /\ received' = received + 1
     \/ /\ prefetch_rx = <<>> /\ ~tx_open
        /\ state' = None
        /\ UNCHANGED <<prefetch_rx, received>>
  /\ pc' = "recv"
  /\ UNCHANGED <<tx_open, sent, interrupt_rx, hashed_state, cache_vars,
                 join_set, worker_vars, acct_hist, slot_hist>>

\* A loop that ends when the channel is closed, for comparison.
RecvNoneReturning ==
  /\ pc = "recv" /\ state = None
  /\ pc' = "returned"
  /\ UNCHANGED <<env_vars, state, hashed_state, cache_vars, join_set,
                 worker_vars, hist_vars>>

\* `if let Some(state) = state` fails: back to the select.
RecvNone ==
  /\ pc = "recv" /\ state = None
  /\ pc' = "select"
  /\ UNCHANGED <<env_vars, state, hashed_state, cache_vars, join_set,
                 worker_vars, hist_vars>>

\* let hashed_state = self.deduplicate_and_update_cached(state);
Filter ==
  /\ pc = "recv" /\ state # None
  /\ LET r == deduplicate_and_update_cached(cached_accounts, cached_storages,
                                            state[1])
     IN /\ cached_accounts' = r.cached_accounts
        /\ cached_storages' = r.cached_storages
        /\ hashed_state' = r.new_hashed_state
        /\ acct_hist' = ObserveAccounts(acct_hist, from_state(state[1]),
                                        r.new_hashed_state)
        /\ slot_hist' = ObserveSlots(slot_hist, from_state(state[1]),
                                     r.new_hashed_state)
  /\ pc' = "spawn"
  /\ UNCHANGED <<env_vars, state, join_set, worker_vars, received>>

\* A spawn that first waits for the tasks already in the set, for comparison.
SpawnAfterJoin ==
  /\ pc = "spawn"
  /\ \A v \in join_set : tasks[v].pc \in {"done", "failed", "cancelled"}
  /\ LET w == Cardinality(join_set) + 1
     IN /\ join_set' = join_set \cup {w}
        /\ tasks' = [tasks EXCEPT ![w] =
                       [NoTask EXCEPT
                          !.pc = "spawned",
                          !.hashed_state = hashed_state,
                          !.self_clone = [cached_accounts |-> cached_accounts,
                                          cached_storages |-> cached_storages]]]
  /\ state' = None
  /\ hashed_state' = DefaultHashedPostState
  /\ pc' = "select"
  /\ UNCHANGED <<env_vars, cache_vars, global_stats, lock, obs, hist_vars>>

\* A spawn that is skipped when the filter left nothing, for comparison.
SpawnSkippingEmpty ==
  /\ pc = "spawn"
  /\ LET w == Cardinality(join_set) + 1
     IN IF DOMAIN hashed_state.accounts = {}
        THEN UNCHANGED <<join_set, tasks>>
        ELSE /\ join_set' = join_set \cup {w}
             /\ tasks' = [tasks EXCEPT ![w] =
                            [NoTask EXCEPT
                               !.pc = "spawned",
                               !.hashed_state = hashed_state,
                               !.self_clone =
                                  [cached_accounts |-> cached_accounts,
                                   cached_storages |-> cached_storages]]]
  /\ state' = None
  /\ hashed_state' = DefaultHashedPostState
  /\ pc' = "select"
  /\ UNCHANGED <<env_vars, cache_vars, global_stats, lock, obs, hist_vars>>

\* let self_clone = Arc::new(self.clone()); join_set.spawn(...)
Spawn ==
  /\ pc = "spawn"
  /\ LET w == Cardinality(join_set) + 1
     IN /\ join_set' = join_set \cup {w}
        /\ tasks' = [tasks EXCEPT ![w] =
                       [NoTask EXCEPT
                          !.pc = "spawned",
                          !.hashed_state = hashed_state,
                          !.self_clone = [cached_accounts |-> cached_accounts,
                                          cached_storages |-> cached_storages]]]
  /\ state' = None
  /\ hashed_state' = DefaultHashedPostState
  /\ pc' = "select"
  /\ UNCHANGED <<env_vars, cache_vars, global_stats, lock, obs, hist_vars>>

\* An interrupt branch that matches only a fired one-shot, for comparison.
SelectInterruptFiredOnly ==
  /\ pc = "select" /\ interrupt_rx = "fired"
  /\ pc' = "abort"
  /\ interrupt_rx' = "taken"
  /\ UNCHANGED <<prefetch_rx, tx_open, sent, state, hashed_state, cache_vars,
                 join_set, worker_vars, hist_vars>>

\* select!: the interrupt branch completes, the one-shot being fired or its
\* sender dropped (the pattern `_` takes either).
SelectInterrupt ==
  /\ pc = "select" /\ interrupt_rx # "pending"
  /\ pc' = "abort"
  /\ interrupt_rx' = "taken"
  /\ UNCHANGED <<prefetch_rx, tx_open, sent, state, hashed_state, cache_vars, join_set,
                 worker_vars, hist_vars>>

Finished(w) == tasks[w].pc \in {"done", "failed", "cancelled"}

\* Where abort_all finds a task: not yet polled, polled and before its
\* fan-out, in its walk, or elsewhere.
AbortPoint(p) == IF p \in {"spawned", "fanout", "walk"} THEN p ELSE "other"

\* join_set.abort_all(): every task of the set that has not finished is marked;
\* a marked task stops at its next yield, not before.
AbortAll ==
  /\ pc = "abort"
  /\ tasks' = [w \in Workers |->
                 IF w \in join_set /\ ~Finished(w)
                 THEN [tasks[w] EXCEPT !.aborted = TRUE] ELSE tasks[w]]
  /\ obs' = [w \in Workers |->
               IF w \in join_set /\ ~Finished(w)
               THEN [obs[w] EXCEPT !.abort_at = AbortPoint(tasks[w].pc)]
               ELSE obs[w]]
  /\ pc' = "stats"
  /\ UNCHANGED <<env_vars, state, hashed_state, cache_vars, join_set,
                 global_stats, lock, hist_vars>>

\* debug!(.., self.global_stats.lock().await): the lock is taken to print.
StatsLock ==
  /\ pc = "stats" /\ lock = 0
  /\ lock' = CoordId
  /\ pc' = "print"
  /\ UNCHANGED <<env_vars, state, hashed_state, cache_vars, join_set, tasks,
                 global_stats, obs, hist_vars>>

\* The event is disabled: its arguments are not evaluated, no lock is taken.
\* return drops run's locals, the receiver and what it still queues included.
StatsSkip ==
  /\ pc = "stats"
  /\ pc' = "returned"
  /\ prefetch_rx' = <<>>
  /\ UNCHANGED <<tx_open, sent, interrupt_rx, state, hashed_state, cache_vars,
                 join_set, worker_vars, hist_vars>>

\* An interrupt branch without its return, for comparison.
ReturnMissing ==
  /\ pc = "print" /\ lock = CoordId
  /\ lock' = 0
  /\ pc' = "select"
  /\ UNCHANGED <<env_vars, state, hashed_state, cache_vars, join_set, tasks,
                 global_stats, obs, hist_vars>>

\* The guard is dropped at the end of the statement; return.
Return ==
  /\ pc = "print" /\ lock = CoordId
  /\ lock' = 0
  /\ pc' = "returned"
  /\ prefetch_rx' = <<>>
  /\ UNCHANGED <<tx_open, sent, interrupt_rx, state, hashed_state, cache_vars,
                 join_set, tasks, global_stats, obs, hist_vars>>

\* ------------------------------------------------------------- prefetch_once
coord_vars == <<env_vars, pc, state, hashed_state, cache_vars, join_set,
                hist_vars>>

\* Walk steps taken after abort_all are counted up to this many.
LateCap == 2
Late(w) ==
  IF obs[w].abort_at = "walk" /\ obs[w].late_steps < LateCap THEN 1 ELSE 0

\* A worker that marks its own accounts in the coordinator's cache, for
\* comparison.
PollMarkingCache(w) ==
  /\ tasks[w].pc = "spawned" /\ ~tasks[w].aborted
  /\ tasks' = [tasks EXCEPT ![w].pc = "fanout"]
  /\ cached_accounts' =
       [h \in DOMAIN cached_accounts \cup HashedIds |-> TRUE]
  /\ UNCHANGED <<env_vars, pc, state, hashed_state, cached_storages, join_set,
                 hist_vars, global_stats, lock, obs>>

\* A first poll that makes every changed account a fan-out target, with an
\* empty prefix set where it has none, for comparison.
PollTargetingAccounts(w) ==
  /\ tasks[w].pc = "spawned" /\ ~tasks[w].aborted
  /\ LET hs == tasks[w].hashed_state
         ps == construct_prefix_sets(hs)
     IN tasks' = [tasks EXCEPT
                    ![w].pc = "fanout",
                    ![w].prefix_sets = ps,
                    ![w].storage_root_targets =
                       [h \in DOMAIN hs.accounts
                               \cup DOMAIN ps.storage_prefix_sets |->
                          IF ContainsKey(ps.storage_prefix_sets, h)
                          THEN ps.storage_prefix_sets[h] ELSE {}]]
  /\ UNCHANGED <<coord_vars, global_stats, lock, obs>>

\* The runtime polls the task for the first time: lines 163-171.
Poll(w) ==
  /\ tasks[w].pc = "spawned" /\ ~tasks[w].aborted
  /\ LET hs == tasks[w].hashed_state
         ps == construct_prefix_sets(hs)
     IN tasks' = [tasks EXCEPT
                    ![w].pc = "fanout",
                    ![w].prefix_sets = ps,
                    ![w].storage_root_targets =
                       StorageRootTargetsNew(DOMAIN hs.accounts,
                                             ps.storage_prefix_sets)]
  /\ UNCHANGED <<coord_vars, global_stats, lock, obs>>

\* A fan-out that goes on before its results are collected, for comparison.
FanOutUncollected(w) ==
  /\ tasks[w].pc = "fanout"
  /\ tasks' = [tasks EXCEPT ![w].pc = "open"]
  /\ UNCHANGED <<coord_vars, global_stats, lock, obs>>

\* storage_root_targets.into_par_iter().map(..).collect(): every target yields
\* Ok((hashed_address, 1)).
FanOut(w) ==
  /\ tasks[w].pc = "fanout"
  /\ tasks' = [tasks EXCEPT
                 ![w].pc = "open",
                 ![w].storage_roots =
                    [h \in DOMAIN tasks[w].storage_root_targets |-> 1],
                 ![w].storage_root_targets = EmptyMap]
  /\ UNCHANGED <<coord_vars, global_stats, lock, obs>>

\* `?` on an Err: prefetch_once returns it, the spawned block logs it.
Fail(w) ==
  /\ tasks' = [tasks EXCEPT ![w] = Ended("failed", "Err")]
  /\ obs' = [obs EXCEPT
               ![w] = [NoObs EXCEPT
                         !.snapshot = TRUE,
                         !.lost = tasks[w].tracker.branches
                                    + tasks[w].tracker.leaves > 0]]

\* consistent_view.provider_ro()?, then the two cursors, each with `?`.
OpenView(w) ==
  /\ tasks[w].pc = "open"
  /\ \/ /\ tasks' = [tasks EXCEPT ![w].pc = "walk"]
        /\ obs' = [obs EXCEPT ![w].snapshot = TRUE]
     \/ Fail(w)
  /\ UNCHANGED <<coord_vars, global_stats, lock>>

\* try_next() yields Some(Branch).
WalkBranch(w) ==
  /\ tasks[w].pc = "walk"
  /\ tasks[w].tracker.branches < MaxBranches
  /\ tasks' = [tasks EXCEPT ![w].tracker.branches = @ + 1,
                            ![w].fallback_err = FALSE]
  /\ obs' = [obs EXCEPT ![w].late_steps = @ + Late(w)]
  /\ UNCHANGED <<coord_vars, global_stats, lock>>

\* The keys of the batch's own accounts that the walk has not yet passed.
Pending(w) ==
  {k \in DOMAIN tasks[w].hashed_state.accounts : k > tasks[w].last_leaf}

\* A fallback whose error is returned with `?`, for comparison.
LeafMissedPropagating(t, h, fb) ==
  IF fb = "Err"
  THEN [Ended("failed", "Err") EXCEPT !.fallback_err = TRUE]
  ELSE [t EXCEPT !.leaves_missed = @ + 1,
                 !.fallback_err = FALSE,
                 !.tracker.leaves = @ + 1,
                 !.last_leaf = h]

\* A missed leaf that the tracker does not count, for comparison.
LeafMissedUncounted(t, h, fb) ==
  [t EXCEPT !.leaves_missed = @ + 1,
            !.fallback_err = (fb = "Err"),
            !.last_leaf = h]

\* The fallback's error is dropped: .ok().unwrap_or_default()
LeafMissed(t, h, fb) ==
  [t EXCEPT !.leaves_missed = @ + 1,
            !.fallback_err = (fb = "Err"),
            !.tracker.leaves = @ + 1,
            !.last_leaf = h]

\* A hit that leaves its result in the map, for comparison.
LeafHitKeeping(t, h) ==
  [t EXCEPT !.fallback_err = FALSE,
            !.tracker.leaves = @ + 1,
            !.last_leaf = h]

\* storage_roots.remove(&hashed_address) is Some(result).
LeafHit(t, h) ==
  [t EXCEPT !.storage_roots = Restrict(@, DOMAIN @ \ {h}),
            !.fallback_err = FALSE,
            !.tracker.leaves = @ + 1,
            !.last_leaf = h]

\* try_next() yields Some(Leaf(h, _)): in key order, never passing over an
\* account of the batch. fb is the outcome of the fallback prefetch, if made.
WalkLeaf(w, h, fb) ==
  /\ tasks[w].pc = "walk"
  /\ h > tasks[w].last_leaf
  /\ \A k \in Pending(w) : h <= k
  /\ IF ContainsKey(tasks[w].storage_roots, h)
     THEN /\ fb = "Ok"
          /\ tasks' = [tasks EXCEPT ![w] = LeafHit(@, h)]
     ELSE tasks' = [tasks EXCEPT ![w] = LeafMissed(@, h, fb)]
  /\ obs' = [obs EXCEPT ![w].late_steps = @ + Late(w)]
  /\ UNCHANGED <<coord_vars, global_stats, lock>>

\* A failing walk that still records what its tracker counted, for comparison.
WalkErrCounting(w) ==
  /\ tasks[w].pc = "walk" /\ lock = 0
  /\ Fail(w)
  /\ global_stats' =
       [global_stats EXCEPT
          !.branch_prefetched = @ + tasks[w].tracker.branches,
          !.missed_leaves_prefetched = @ + tasks[w].leaves_missed]
  /\ UNCHANGED <<coord_vars, lock>>

\* try_next() yields Err: `?` returns it.
WalkErr(w) ==
  /\ tasks[w].pc = "walk"
  /\ Fail(w)
  /\ UNCHANGED <<coord_vars, global_stats, lock>>

\* try_next() yields None: tracker.finish(), on to global_stats.lock().
WalkEnd(w) ==
  /\ tasks[w].pc = "walk"
  /\ Pending(w) = {}
  /\ tasks' = [tasks EXCEPT ![w].pc = "lock", ![w].fallback_err = FALSE]
  /\ UNCHANGED <<coord_vars, global_stats, lock, obs>>

\* A lock() that is granted whoever holds the mutex, for comparison.
PollLockUnguarded(w) ==
  /\ tasks[w].pc = "lock"
  /\ lock' = w
  /\ tasks' = [tasks EXCEPT ![w].pc = "update"]
  /\ obs' = obs
  /\ UNCHANGED <<coord_vars, global_stats>>

\* global_stats.lock().await is polled: the lock is free and taken, or the
\* task yields; a marked task that yields is cancelled there.
PollLock(w) ==
  /\ tasks[w].pc = "lock"
  /\ \/ /\ lock = 0
        /\ lock' = w
        /\ tasks' = [tasks EXCEPT ![w].pc = "update"]
        /\ obs' = obs
     \/ /\ lock # 0
        /\ lock' = lock
        /\ tasks' = [tasks EXCEPT
                       ![w] = IF tasks[w].aborted
                              THEN Ended("cancelled", "pending")
                              ELSE [@ EXCEPT !.pc = "waiting"]]
        /\ obs' = [obs EXCEPT
                     ![w] = IF tasks[w].aborted THEN Closed(@) ELSE @]
  /\ UNCHANGED <<coord_vars, global_stats>>

\* A waiting task is woken with the lock.
Wake(w) ==
  /\ tasks[w].pc = "waiting" /\ ~tasks[w].aborted
  /\ lock = 0
  /\ lock' = w
  /\ tasks' = [tasks EXCEPT ![w].pc = "update"]
  /\ UNCHANGED <<coord_vars, global_stats, obs>>

\* What a finished walk adds to GlobalStats: lines 254-256.
Contribution(t) ==
  <<t.tracker.branches, USub(t.tracker.leaves, t.leaves_missed),
    t.leaves_missed>>

\* An update that keeps the guard, for comparison.
UpdateKeepingLock(w) ==
  /\ tasks[w].pc = "update" /\ lock = w
  /\ LET add == Contribution(tasks[w])
     IN global_stats' =
             [branch_prefetched |-> global_stats.branch_prefetched + add[1],
              leaves_prefetched |-> global_stats.leaves_prefetched + add[2],
              missed_leaves_prefetched |->
                 global_stats.missed_leaves_prefetched + add[3]]
  /\ lock' = lock
  /\ tasks' = [tasks EXCEPT ![w] = Ended("done", "Ok")]
  /\ obs' = [obs EXCEPT ![w] = Closed(@)]
  /\ UNCHANGED coord_vars

\* An update that assigns where the code adds, for comparison.
UpdateOverwriting(w) ==
  /\ tasks[w].pc = "update" /\ lock = w
  /\ LET add == Contribution(tasks[w])
     IN global_stats' =
             [branch_prefetched |-> add[1],
              leaves_prefetched |-> add[2],
              missed_leaves_prefetched |-> add[3]]
  /\ lock' = 0
  /\ tasks' = [tasks EXCEPT ![w] = Ended("done", "Ok")]
  /\ obs' = [obs EXCEPT ![w] = Closed(@)]
  /\ UNCHANGED coord_vars

\* Lines 254-267 under the guard, which is dropped on return.
Update(w) ==
  /\ tasks[w].pc = "update" /\ lock = w
  /\ LET add == Contribution(tasks[w])
     IN global_stats' =
             [branch_prefetched |-> global_stats.branch_prefetched + add[1],
              leaves_prefetched |-> global_stats.leaves_prefetched + add[2],
              missed_leaves_prefetched |->
                 global_stats.missed_leaves_prefetched + add[3]]
  /\ lock' = 0
  /\ tasks' = [tasks EXCEPT ![w] = Ended("done", "Ok")]
  /\ obs' = [obs EXCEPT ![w] = Closed(@)]
  /\ UNCHANGED coord_vars

\* The runtime drops a marked task that is not running: one never polled, or
\* one waiting for the lock.
Cancel(w) ==
  /\ tasks[w].aborted /\ tasks[w].pc \in {"spawned", "waiting"}
  /\ tasks' = [tasks EXCEPT ![w] = Ended("cancelled", "pending")]
  /\ obs' = [obs EXCEPT ![w] = Closed(@)]
  /\ UNCHANGED <<coord_vars, global_stats, lock>>

Worker(w) ==
  \/ Poll(w)
  \/ FanOut(w)
  \/ OpenView(w)
  \/ WalkBranch(w)
  \/ \E h \in HashedIds, fb \in {"Ok", "Err"} : WalkLeaf(w, h, fb)
  \/ WalkErr(w)
  \/ WalkEnd(w)
  \/ PollLock(w)
  \/ Wake(w)
  \/ Update(w)
  \/ Cancel(w)

Coordinator ==
  \/ SelectRecv
  \/ RecvNone
  \/ Filter
  \/ Spawn
  \/ SelectInterrupt
  \/ AbortAll
  \/ StatsLock
  \/ StatsSkip
  \/ Return

Environment ==
  \/ \E b \in PlainStates : Send(b)
  \/ CloseChannel
  \/ FireInterrupt
  \/ DropInterrupt

\* ------------------------------------------------------------- specifications
\* The coordinator's receive path alone, over every batch.
DedupNext ==
  \/ \E b \in EvmStates : Send(b)
  \/ SelectRecv
  \/ Filter
  \/ Spawn

DedupSpec == Init /\ [][DedupNext]_vars

Next ==
  \/ Environment
  \/ Coordinator
  \/ \E w \in Workers : Worker(w)

Spec == Init /\ [][Next]_vars

\* Termination does not depend on what a batch holds, so the fair
\* specification draws every batch from those that name every account: the
\* first one fills the cache, a later one is filtered to nothing, and the
\* workers of both still walk the trie.
WholeStates == {b \in PlainStates : DOMAIN b = Addresses}

FairNext ==
  \/ \E b \in WholeStates : Send(b)
  \/ CloseChannel
  \/ FireInterrupt
  \/ DropInterrupt
  \/ Coordinator
  \/ \E w \in Workers : Worker(w)

\* The scheduling the runtime gives: the coordinator and every task keep
\* running, a select! branch that is ready again and again is taken (its
\* branches are polled in random order), and a free mutex is handed over.
FairSpec ==
  /\ Init /\ [][FairNext]_vars
  /\ WF_vars(RecvNone) /\ WF_vars(Filter) /\ WF_vars(Spawn)
  /\ SF_vars(SelectInterrupt)
  /\ WF_vars(AbortAll) /\ WF_vars(StatsLock) /\ WF_vars(Return)
  /\ \A w \in Workers : WF_vars(Worker(w))

\* prefetch_once is public: one call of it on any hashed state, accounts with
\* and without storage changes and storage changes of accounts not in the
\* state among them.
NumLeaves == 3
LeafIds == 1..NumLeaves

HashedStorages == UNION {[K -> {1}] : K \in SUBSET HashedSlots}

HashedPostStates ==
  {[accounts |-> a, storages |-> s] :
     a \in UNION {[S -> {1}] : S \in SUBSET LeafIds},
     s \in UNION {[T -> HashedStorages] : T \in SUBSET LeafIds}}

OnceInit ==
  /\ prefetch_rx = <<>>
  /\ tx_open = TRUE
  /\ sent = 0
  /\ interrupt_rx = "pending"
  /\ pc = "select"
  /\ state = None
  /\ hashed_state = DefaultHashedPostState
  /\ cached_accounts = EmptyMap
  /\ cached_storages = EmptyMap
  /\ join_set = {}
  /\ \E hp \in HashedPostStates :
       tasks = [w \in Workers |->
                  IF w = 1
                  THEN [NoTask EXCEPT !.pc = "spawned", !.hashed_state = hp]
                  ELSE NoTask]
  /\ global_stats = [branch_prefetched |-> 0, leaves_prefetched |-> 0,
                     missed_leaves_prefetched |-> 0]
  /\ lock = 0
  /\ received = 0
  /\ acct_hist = [h \in HashedIds |-> NoHist]
  /\ slot_hist = [p \in HashedIds \X HashedSlots |-> NoHist]
  /\ obs = [w \in Workers |-> NoObs]

OnceNext ==
  \/ Poll(1)
  \/ FanOut(1)
  \/ OpenView(1)
  \/ WalkBranch(1)
  \/ \E h \in LeafIds, fb \in {"Ok", "Err"} : WalkLeaf(1, h, fb)
  \/ WalkErr(1)
  \/ WalkEnd(1)
  \/ PollLock(1)
  \/ Update(1)

OnceSpec == OnceInit /\ [][OnceNext]_vars

\* The fair specification without FireInterrupt: the one-shot completes only
\* by its sender being dropped.
DropNext ==
  \/ \E b \in WholeStates : Send(b)
  \/ CloseChannel
  \/ DropInterrupt
  \/ Coordinator
  \/ \E w \in Workers : Worker(w)

DropSpec ==
  /\ Init /\ [][DropNext]_vars
  /\ WF_vars(RecvNone) /\ WF_vars(Filter) /\ WF_vars(Spawn)
  /\ SF_vars(SelectInterrupt)
  /\ WF_vars(AbortAll) /\ WF_vars(StatsLock) /\ WF_vars(Return)
  /\ \A w \in Workers : WF_vars(Worker(w))

Live(w) == tasks[w].pc \in {"spawned", "fanout", "open", "walk", "lock",
                            "waiting", "update"}
Running(w) == tasks[w].pc \in {"fanout", "open", "walk", "lock", "update"}
Interrupted == pc \in {"abort", "stats", "print", "returned"}

\* C3: the dedup cache changes only in the coordinator's own filter step,
\* never in a step of a worker; a task enters the set only in the spawn step
\* that follows the filter, with a copy of the cache as the filter left it,
\* which holds every account the task is handed.
C3_CacheSingleWriter ==
  [][/\ cache_vars' # cache_vars => pc = "recv" /\ pc' = "spawn"
     /\ join_set' # join_set =>
          /\ pc = "spawn" /\ cache_vars' = cache_vars
          /\ \A w \in join_set' \ join_set :
               /\ tasks'[w].self_clone.cached_accounts = cached_accounts
               /\ tasks'[w].hashed_state = hashed_state
               /\ DOMAIN hashed_state.accounts \subseteq DOMAIN cached_accounts
     /\ \A w \in Workers :
          tasks'[w] # tasks[w] /\ w \in join_set => cache_vars' = cache_vars
    ]_vars

\* The next batch has been filtered into the cache while an earlier worker,
\* holding an older copy, is still walking.
C3_Witness ==
  /\ pc = "spawn"
  /\ \E w \in join_set :
       /\ tasks[w].pc = "walk"
       /\ tasks[w].self_clone.cached_accounts # cached_accounts

\* C4: once the interrupt branch is taken the coordinator receives no batch,
\* runs no filter and spawns no worker: the count of received batches, the
\* dedup cache and the set of tasks stay as they are.
C4_NothingAfterInterrupt ==
  [][Interrupted =>
       /\ Interrupted'
       /\ received' = received
       /\ cache_vars' = cache_vars
       /\ join_set' = join_set
       /\ hashed_state' = hashed_state
    ]_vars

\* run has returned with a batch sent and never received.
C4_Witness ==
  /\ pc = "returned"
  /\ received < sent
  /\ received > 0

\* C5: once the interrupt is fired run returns, and a worker that holds the
\* GlobalStats lock gives it up.
C5_RunReturns ==
  /\ (interrupt_rx = "fired") ~> (pc = "returned")
  /\ \A w \in Workers : (lock = w) ~> (lock # w)

\* run took the lock after abort_all while a worker was still in flight and a
\* batch was still queued.
C5_Witness ==
  /\ pc = "print"
  /\ prefetch_rx # <<>>
  /\ \E w \in Workers : Running(w)

\* C6: a worker that abort_all found before its fan-out began, polled or not,
\* calls provider_ro never and never holds the lock to update GlobalStats.
C6_EarlyAbortedIsInert ==
  \A w \in Workers :
    obs[w].abort_at \in {"spawned", "fanout"} =>
      ~obs[w].snapshot /\ tasks[w].pc # "update"

\* C7: a worker that abort_all found in its walk consumes no walk step beyond
\* the one in flight.
C7_WalkStopsAtCheckpoint ==
  \A w \in Workers : obs[w].abort_at = "walk" => obs[w].late_steps <= 1

\* C8: before the interrupt is handled the dispatch loop is never blocked by a
\* worker: a queued batch can be received, a received batch filtered and its
\* worker spawned, whatever the outstanding workers are doing.
C8_DispatchNeverWaits ==
  /\ pc = "select" /\ prefetch_rx # <<>> => ENABLED SelectRecv
  /\ pc = "recv" /\ state # None => ENABLED Filter
  /\ pc = "spawn" => ENABLED Spawn
  /\ pc \in {"select", "recv", "spawn"}
       \/ Interrupted

\* Batch 2 has been filtered while the worker of batch 1 is still walking.
C8_Witness ==
  /\ pc = "spawn"
  /\ received = 2
  /\ tasks[1].pc = "walk"

\* C9: the step in which a worker fails changes neither GlobalStats nor the
\* dedup cache nor anything of the coordinator and its channels, a failed
\* worker stays failed (no retry), and GlobalStats is zero as long as no
\* worker has completed.
C9_FailedWorkerIsolated ==
  [][/\ \A w \in Workers :
          /\ tasks'[w].pc = "failed" /\ tasks[w].pc # "failed" =>
               /\ global_stats' = global_stats
               /\ cache_vars' = cache_vars
               /\ coord_vars' = coord_vars
               /\ lock' = lock
          /\ tasks[w].pc = "failed" => tasks'[w] = tasks[w]
     /\ (\A w \in Workers : tasks'[w].pc # "done") =>
          global_stats' = [branch_prefetched |-> 0, leaves_prefetched |-> 0,
                           missed_leaves_prefetched |-> 0]
    ]_vars

\* Worker 1 failed in its walk after counting, and worker 2, of a later
\* batch, completed and its counts alone are in GlobalStats.
C9_Witness ==
  /\ tasks[1].pc = "failed" /\ obs[1].lost
  /\ tasks[2].pc = "done"
  /\ global_stats.missed_leaves_prefetched = 1
  /\ global_stats.branch_prefetched = 0

\* C10: a step in which the fallback prefetch returns an error is a walk step
\* like any other: the leaf is counted, as a leaf and as missed, the worker
\* stays in its walk and its result is no error.
C10_FallbackErrorSwallowed ==
  [][\A w \in Workers :
       /\ tasks'[w].fallback_err
       /\ tasks'[w].last_leaf # tasks[w].last_leaf
            \/ tasks'[w].pc # tasks[w].pc
       =>
         /\ tasks[w].pc = "walk" /\ tasks'[w].pc = "walk"
         /\ tasks'[w].result = "pending"
         /\ tasks'[w].tracker.leaves = tasks[w].tracker.leaves + 1
         /\ tasks'[w].leaves_missed = tasks[w].leaves_missed + 1
         /\ global_stats' = global_stats
    ]_vars

\* A second leaf whose fallback failed, after a first, has been counted.
C10_Witness ==
  \E w \in Workers :
    /\ tasks[w].fallback_err
    /\ tasks[w].tracker.leaves = 2
    /\ tasks[w].leaves_missed = 2

\* C11: no step lowers or resets any of the three GlobalStats counters.
C11_StatsMonotone ==
  [][/\ global_stats'.branch_prefetched >= global_stats.branch_prefetched
     /\ global_stats'.leaves_prefetched >= global_stats.leaves_prefetched
     /\ global_stats'.missed_leaves_prefetched >=
          global_stats.missed_leaves_prefetched
    ]_vars

\* Two workers have added to the counters one after the other, each a branch
\* and a missed leaf.
C11_Witness ==
  /\ tasks[1].pc = "done" /\ tasks[2].pc = "done"
  /\ global_stats.branch_prefetched = 2
  /\ global_stats.missed_leaves_prefetched >= 2

\* A step of worker w that consumes a Leaf.
LeafStep(w) ==
  /\ tasks[w].pc = "walk"
  /\ tasks'[w].tracker.leaves = tasks[w].tracker.leaves + 1

\* C12: for every Leaf of a walk: if its account has a fan-out result, the
\* result is removed from the map and there is no fallback (the missed counter
\* stays); otherwise the one fallback of the None arm is made, the missed
\* counter grows by one and the map stays. The map never grows, so a result
\* is consumed at most once.
C12_LeafHitOrOneFallback ==
  [][\A w \in Workers :
       /\ LeafStep(w) =>
            LET h == tasks'[w].last_leaf
                roots == tasks[w].storage_roots
            IN /\ h > tasks[w].last_leaf
               /\ IF ContainsKey(roots, h)
                  THEN /\ tasks'[w].storage_roots =
                            Restrict(roots, DOMAIN roots \ {h})
                       /\ tasks'[w].leaves_missed = tasks[w].leaves_missed
                       /\ ~tasks'[w].fallback_err
                  ELSE /\ tasks'[w].storage_roots = roots
                       /\ tasks'[w].leaves_missed = tasks[w].leaves_missed + 1
       /\ tasks[w].pc = "walk" /\ tasks'[w].pc = "walk" =>
            DOMAIN tasks'[w].storage_roots \subseteq DOMAIN tasks[w].storage_roots
    ]_vars

\* The walk over leaves 1, 2, 3 with fan-out results for 1 and 3 only has
\* ended: one missed leaf, both results consumed.
C12_Witness ==
  /\ tasks[1].pc = "lock"
  /\ DOMAIN tasks[1].prefix_sets.storage_prefix_sets = {1, 3}
  /\ \A h \in {1, 3} : tasks[1].prefix_sets.storage_prefix_sets[h] # {}
  /\ tasks[1].tracker.leaves = 3
  /\ tasks[1].leaves_missed = 1
  /\ tasks[1].storage_roots = EmptyMap

\* Whether the batch in hand carries account a for the first time (the filter
\* let it through) with storage slots.
FirstTimeWithStorage(a) ==
  /\ a \in DOMAIN state[1]
  /\ ContainsKey(hashed_state.accounts, HashedAddress(a))
  /\ DOMAIN state[1][a].storage # {}

\* C13: after the filter, the prefix sets built from what the worker is handed
\* have, for a first-time account with storage slots, a non-empty per-account
\* set and the account's path in the global set, and for a first-time account
\* without storage slots no per-account set or an empty one.
C13_StoragePrefixSetBuilt ==
  pc = "spawn" =>
    LET ps == construct_prefix_sets(hashed_state)
    IN \A a \in DOMAIN state[1] :
         LET h == HashedAddress(a)
         IN /\ FirstTimeWithStorage(a) =>
                 /\ Nibbles(h) \in ps.account_prefix_set
                 /\ ContainsKey(ps.storage_prefix_sets, h)
                 /\ ps.storage_prefix_sets[h] # {}
            /\ ContainsKey(hashed_state.accounts, h)
                 /\ DOMAIN state[1][a].storage = {} =>
                 /\ Nibbles(h) \in ps.account_prefix_set
                 /\ ~ContainsKey(ps.storage_prefix_sets, h)
                      \/ ps.storage_prefix_sets[h] = {}

\* The fan-out targets of worker w's batch.
Targets(w) ==
  DOMAIN StorageRootTargetsNew(DOMAIN tasks[w].hashed_state.accounts,
                               tasks[w].prefix_sets.storage_prefix_sets)

\* C14: a worker calls provider_ro and enters its walk only out of the state
\* in which the fan-out has been collected: a result for every target of the
\* batch, no target left; and a worker fails only after that point, the
\* fan-out itself never returning an error, without touching GlobalStats.
C14_WalkAfterFanOut ==
  [][\A w \in Workers :
       /\ \/ obs'[w].snapshot /\ ~obs[w].snapshot
          \/ tasks'[w].pc = "walk" /\ tasks[w].pc # "walk"
          => /\ tasks[w].pc = "open"
             /\ DOMAIN tasks[w].storage_roots = Targets(w)
             /\ tasks[w].storage_root_targets = EmptyMap
       /\ tasks[w].pc \in {"spawned", "fanout"} =>
            /\ tasks'[w].pc \in {"spawned", "fanout", "open", "cancelled"}
            /\ tasks'[w].tracker = tasks[w].tracker
       /\ tasks'[w].pc = "failed" /\ tasks[w].pc # "failed" =>
            /\ tasks[w].pc \in {"open", "walk"}
            /\ global_stats' = global_stats
    ]_vars

\* The walk has taken its first step with the results of two targets in hand.
C14_Witness ==
  /\ tasks[1].pc = "walk"
  /\ obs[1].snapshot
  /\ tasks[1].tracker.branches = 1
  /\ Cardinality(Targets(1)) = 2
  /\ DOMAIN tasks[1].storage_roots = Targets(1)

\* GlobalStats with a worker's contribution added.
Plus(g, add) ==
  [branch_prefetched |-> g.branch_prefetched + add[1],
   leaves_prefetched |-> g.leaves_prefetched + add[2],
   missed_leaves_prefetched |-> g.missed_leaves_prefetched + add[3]]

\* C15: a worker is at its update only while it holds the lock, so at most
\* one is; the step that completes a worker adds exactly that worker's
\* contribution to the counters as they are, and no other step changes them:
\* the counters are always the sum of the contributions of the workers that
\* completed.
C15_NoLostUpdate ==
  [][/\ \A w \in Workers : tasks'[w].pc = "update" => lock' = w
     /\ \A w \in Workers :
          tasks'[w].pc = "done" /\ tasks[w].pc # "done" =>
            /\ tasks[w].pc = "update" /\ lock = w
            /\ global_stats' = Plus(global_stats, Contribution(tasks[w]))
     /\ global_stats' # global_stats =>
          \E w \in Workers : tasks'[w].pc = "done" /\ tasks[w].pc = "update"
    ]_vars

\* Both workers have completed, one behind the other at the lock, and the
\* counters hold what the two counted together.
C15_Witness ==
  /\ tasks[1].pc = "done" /\ tasks[2].pc = "done"
  /\ global_stats.branch_prefetched = 1
  /\ global_stats.missed_leaves_prefetched = 3

\* Whether run holds a batch it has received and not yet spawned a worker for.
InHand == pc \in {"recv", "spawn"} /\ state # None

\* C17: the workers spawned are one per batch taken from the queue, numbered in
\* the order of receipt, the batch in hand alone being without its worker yet;
\* every spawn step adds the worker of the batch just received, with that
\* batch's filtered delta, empty or not.
C17_OneWorkerPerBatch ==
  /\ [](join_set = 1..(IF InHand THEN received - 1 ELSE received))
  /\ [][join_set' # join_set =>
          /\ pc = "spawn"
          /\ join_set' = join_set \cup {received}
          /\ tasks'[received].pc = "spawned"
          /\ tasks'[received].hashed_state = hashed_state
       ]_vars

\* The second batch was filtered to nothing and has its worker all the same.
C17_Witness ==
  /\ received = 2 /\ join_set = {1, 2}
  /\ tasks[2].pc = "spawned"
  /\ DOMAIN tasks[2].hashed_state.accounts = {}
  /\ DOMAIN tasks[2].self_clone.cached_accounts # {}

\* C18: the missed leaves of a worker never exceed the leaves its tracker has
\* counted, and the step that completes a worker adds (branches, leaves minus
\* missed, missed): the two leaf counters grow together by the leaves visited.
C18_MissedWithinLeaves ==
  /\ [](\A w \in Workers :
          /\ tasks[w].leaves_missed <= tasks[w].tracker.leaves
          /\ Contribution(tasks[w])[2] >= 0)
  /\ [][\A w \in Workers :
          tasks'[w].pc = "done" /\ tasks[w].pc # "done" =>
            /\ global_stats'.branch_prefetched =
                 global_stats.branch_prefetched + tasks[w].tracker.branches
            /\ global_stats'.missed_leaves_prefetched =
                 global_stats.missed_leaves_prefetched + tasks[w].leaves_missed
            /\ global_stats'.leaves_prefetched
                 + global_stats'.missed_leaves_prefetched =
                 global_stats.leaves_prefetched
                   + global_stats.missed_leaves_prefetched
                   + tasks[w].tracker.leaves
       ]_vars

\* A completed call that visited three leaves, two of them hits.
C18_Witness ==
  /\ tasks[1].pc = "done"
  /\ global_stats.leaves_prefetched = 2
  /\ global_stats.missed_leaves_prefetched = 1

\* C19: a recv() that returns None takes run back to the select with nothing
\* filtered and nothing spawned; run is past its select loop only once the
\* interrupt branch has taken the one-shot, fired or dropped, and returns only
\* from there.
C19_ReturnsOnlyOnInterrupt ==
  /\ [](Interrupted => interrupt_rx = "taken")
  /\ [][/\ interrupt_rx' = "taken" /\ interrupt_rx # "taken" =>
             /\ interrupt_rx \in {"fired", "dropped"}
             /\ pc = "select" /\ pc' = "abort"
        /\ pc' = "returned" /\ pc # "returned" => pc \in {"stats", "print"}
        /\ pc = "recv" /\ state = None =>
             /\ pc' \in {"recv", "select"}
             /\ cache_vars' = cache_vars
             /\ join_set' = join_set
             /\ received' = received
       ]_vars

\* Every sender is gone, the queue is drained, recv() has returned None after
\* a batch was processed, and no interrupt has come.
C19_Witness ==
  /\ ~tx_open /\ prefetch_rx = <<>>
  /\ pc = "recv" /\ state = None
  /\ received >= 1
  /\ interrupt_rx = "pending"

\* The accounts of worker w's hashed state that carry storage slots.
WithSlots(w) ==
  {h \in DOMAIN tasks[w].hashed_state.storages :
     DOMAIN tasks[w].hashed_state.storages[h] # {}}

C20_DroppedSenderInterrupts ==
  /\ [](pc = "select" /\ interrupt_rx = "dropped" => ENABLED SelectInterrupt)
  /\ [][pc = "abort" /\ pc' # "abort" =>
          /\ pc' = "stats"
          /\ \A w \in join_set : ~Finished(w) => tasks'[w].aborted
       ]_vars
  /\ (interrupt_rx = "dropped") ~> (pc = "returned")

\* run has returned, the one-shot never fired, and a worker was cancelled.
C20_Witness ==
  /\ pc = "returned"
  /\ interrupt_rx = "taken"
  /\ \E w \in join_set : tasks[w].pc = "cancelled"

====
